---- MODULE Spec2Model ----
(***************************************************************************)
(* A model of app.py (AI visibility analyzer): the analysis pipeline       *)
(* (extract_urls, extract_product_names, analyze_response), the run loop   *)
(* of the Streamlit script with its counters, and generate_html_report     *)
(* with the search filter of the embedded script.                          *)
(*                                                                         *)
(* Text is a sequence of one-character strings.  The regular expressions   *)
(* of the source are evaluated as Python's re evaluates them (leftmost,    *)
(* greedy, non-overlapping findall), over the characters that occur in     *)
(* the texts of this module.                                               *)
(***************************************************************************)
EXTENDS Integers, Sequences, FiniteSets, TLC

(***************************************************************************)
(* Bounds of the model.                                                    *)
(***************************************************************************)
MaxQuestions == 3

MaxRecords == 3

MaxTextLen == 3

MaxBrands == 2

MaxStrLen == 2

(***************************************************************************)
(* Character classes of the regular expressions.                           *)
(***************************************************************************)
LowerAlphabet ==
    <<"a", "b", "c", "d", "e", "f", "g", "h", "i", "j", "k", "l", "m",
      "n", "o", "p", "q", "r", "s", "t", "u", "v", "w", "x", "y", "z">>

UpperAlphabet ==
    <<"A", "B", "C", "D", "E", "F", "G", "H", "I", "J", "K", "L", "M",
      "N", "O", "P", "Q", "R", "S", "T", "U", "V", "W", "X", "Y", "Z">>

LowerLetters == {LowerAlphabet[k] : k \in DOMAIN LowerAlphabet}

UpperLetters == {UpperAlphabet[k] : k \in DOMAIN UpperAlphabet}

\* \d
Digits == {"0", "1", "2", "3", "4", "5", "6", "7", "8", "9"}

\* [a-zA-Z]
Letters == LowerLetters \cup UpperLetters

\* [a-zA-Z0-9]
Alnum == Letters \cup Digits

\* [-a-zA-Z0-9]
AlnumHyphen == Alnum \cup {"-"}

\* \w
WordChars == Alnum \cup {"_"}

\* [-\w.]
UrlHostChars == WordChars \cup {"-", "."}

\* [\da-fA-F]
HexChars == Digits \cup {"a", "b", "c", "d", "e", "f", "A", "B", "C", "D", "E", "F"}

\* [-\w%!.?&=+]
UrlPathChars == WordChars \cup {"-", "%", "!", ".", "?", "&", "=", "+"}

\* the characters str.strip() removes
Whitespace == {" ", "\n"}

\* the {0,62} of the label repetitions in domain_pattern
LabelTailMax == 62

(***************************************************************************)
(* String helpers: str.lower, str.strip, str.splitlines, slicing.          *)
(***************************************************************************)
LowerChar(c) ==
    IF c \in UpperLetters
    THEN LowerAlphabet[CHOOSE k \in DOMAIN UpperAlphabet : UpperAlphabet[k] = c]
    ELSE c

Lower(s) == [k \in 1..Len(s) |-> LowerChar(s[k])]

\* s[a:b) with 1-based a and exclusive b
Slice(s, a, b) == IF b <= a THEN <<>> ELSE SubSeq(s, a, b - 1)

Take(s, n) == SubSeq(s, 1, IF n < Len(s) THEN n ELSE Len(s))

RECURSIVE LStrip(_)
LStrip(s) ==
    IF s # <<>> /\ Head(s) \in Whitespace THEN LStrip(Tail(s)) ELSE s

RECURSIVE RStrip(_)
RStrip(s) ==
    IF s # <<>> /\ s[Len(s)] \in Whitespace
    THEN RStrip(SubSeq(s, 1, Len(s) - 1))
    ELSE s

Strip(s) == RStrip(LStrip(s))

\* the index of the first c at or after p, Len(s) + 1 when there is none
RECURSIVE FindChar(_, _, _)
FindChar(s, c, p) ==
    IF p > Len(s) \/ s[p] = c THEN p ELSE FindChar(s, c, p + 1)

\* str.splitlines(): no empty last line after a final line break
RECURSIVE SplitLinesFrom(_, _)
SplitLinesFrom(s, p) ==
    IF p > Len(s)
    THEN <<>>
    ELSE LET e == FindChar(s, "\n", p)
         IN  <<Slice(s, p, e)>> \o SplitLinesFrom(s, e + 1)

SplitLines(s) == SplitLinesFrom(s, 1)

\* [x.strip() for x in s.splitlines() if x.strip()]
RECURSIVE StrippedNonEmpty(_)
StrippedNonEmpty(lines) ==
    IF lines = <<>>
    THEN <<>>
    ELSE LET x == Strip(Head(lines))
         IN  (IF x # <<>> THEN <<x>> ELSE <<>>) \o StrippedNonEmpty(Tail(lines))

ParseLines(input) == StrippedNonEmpty(SplitLines(input))

\* every ordering of a finite set as a list without repetition
ListsOfSet(S) ==
    {l \in [1..Cardinality(S) -> S] : \A a, b \in 1..Cardinality(S) : l[a] = l[b] => a = b}

RECURSIVE SeqToSet(_)
SeqToSet(s) == IF s = <<>> THEN {} ELSE {Head(s)} \cup SeqToSet(Tail(s))

\* Python's None; a text never holds an element of more than one character
None == <<"None">>

\* x or ""
OrEmpty(x) == IF x = None THEN <<>> ELSE x

(***************************************************************************)
(* extract_urls                                                            *)
(***************************************************************************)
\* the end (exclusive) of the longest run of characters of class C from p
RECURSIVE RunEnd(_, _, _)
RunEnd(t, C, p) ==
    IF p <= Len(t) /\ t[p] \in C THEN RunEnd(t, C, p + 1) ELSE p

HasAt(t, p, lit) ==
    /\ p + Len(lit) - 1 <= Len(t)
    /\ \A k \in 1..Len(lit) : t[p + k - 1] = lit[k]

\* https?://  : the position after the scheme, 0 when it does not match at p
SchemeEnd(t, p) ==
    IF HasAt(t, p, <<"h", "t", "t", "p", "s", ":", "/", "/">>) THEN p + 8
    ELSE IF HasAt(t, p, <<"h", "t", "t", "p", ":", "/", "/">>) THEN p + 7
    ELSE 0

\* (?:[-\w.]|(?:%[\da-fA-F]{2}))+  taken greedily from p
RECURSIVE UrlHostEnd(_, _)
UrlHostEnd(t, p) ==
    IF p <= Len(t) /\ t[p] \in UrlHostChars
    THEN UrlHostEnd(t, p + 1)
    ELSE IF /\ p + 2 <= Len(t)
            /\ t[p] = "%"
            /\ t[p + 1] \in HexChars
            /\ t[p + 2] \in HexChars
         THEN UrlHostEnd(t, p + 3)
         ELSE p

\* (?:/[-\w%!.?&=+]*)*  taken greedily from p
RECURSIVE UrlPathEnd(_, _)
UrlPathEnd(t, p) ==
    IF p <= Len(t) /\ t[p] = "/"
    THEN UrlPathEnd(t, RunEnd(t, UrlPathChars, p + 1))
    ELSE p

\* url_pattern at p: the end (exclusive) of the match, 0 when there is none
UrlMatchEnd(t, p) ==
    LET s == SchemeEnd(t, p)
        h == UrlHostEnd(t, s)
    IN  IF s = 0 \/ h = s THEN 0 ELSE UrlPathEnd(t, h)

\* re.findall(url_pattern, text): the matches found scanning from p0; the scan
\* resumes where the last match ended
FindAllUrls(t, p0) ==
    LET from[p \in 1..(Len(t) + 1)] ==
            IF p > Len(t)
            THEN <<>>
            ELSE LET e == UrlMatchEnd(t, p)
                 IN  IF e = 0 THEN from[p + 1] ELSE <<Slice(t, p, e)>> \o from[e]
    IN  from[p0]

\* [a-zA-Z0-9][-a-zA-Z0-9]{0,62}\.  : the position after the dot, 0 on failure
LabelDotEnd(t, p) ==
    IF p > Len(t) \/ t[p] \notin Alnum
    THEN 0
    ELSE LET run == RunEnd(t, AlnumHyphen, p + 1)
             e   == IF run - (p + 1) > LabelTailMax THEN p + 1 + LabelTailMax ELSE run
         IN  IF e <= Len(t) /\ t[e] = "." THEN e + 1 ELSE 0

\* [a-zA-Z]{2,}  : the end of the run, 0 when it is shorter than 2
TldEnd(t, p) ==
    LET e == RunEnd(t, Letters, p)
    IN  IF p = 0 \/ e - p < 2 THEN 0 ELSE e

\* the capture group of domain_pattern at p: three labels, else two
DomainGroupEnd(t, p) ==
    LET l1 == LabelDotEnd(t, p)
        l2 == IF l1 = 0 THEN 0 ELSE LabelDotEnd(t, l1)
        three == IF l2 = 0 THEN 0 ELSE TldEnd(t, l2)
        two == IF l1 = 0 THEN 0 ELSE TldEnd(t, l1)
    IN  IF three # 0 THEN three ELSE two

\* domain_pattern at p: <<group start, end>>, <<0, 0>> when there is no match
DomainMatch(t, p) ==
    LET www == HasAt(t, p, <<"w", "w", "w", ".">>)
        withWww == IF www THEN DomainGroupEnd(t, p + 4) ELSE 0
        without == DomainGroupEnd(t, p)
    IN  IF withWww # 0 THEN <<p + 4, withWww>>
        ELSE IF without # 0 THEN <<p, without>>
        ELSE <<0, 0>>

\* re.findall(domain_pattern, text): the capture group of each match found
\* scanning from p0
FindAllDomains(t, p0) ==
    LET from[p \in 1..(Len(t) + 1)] ==
            IF p > Len(t)
            THEN <<>>
            ELSE LET m == DomainMatch(t, p)
                 IN  IF m[2] = 0
                     THEN from[p + 1]
                     ELSE <<Slice(t, m[1], m[2])>> \o from[m[2]]
    IN  from[p0]

\* re.search(r'https?://(?:www\.)?([^/]+)', url).group(1), <<>> for no match
UrlDomain(url) ==
    LET s == SchemeEnd(url, 1)
        afterWww == IF s # 0 /\ HasAt(url, s, <<"w", "w", "w", ".">>) THEN s + 4 ELSE 0
        stop(q) == FindChar(url, "/", q)
    IN  IF s = 0 THEN <<>>
        ELSE IF afterWww # 0 /\ stop(afterWww) > afterWww
             THEN Slice(url, afterWww, stop(afterWww))
             ELSE Slice(url, s, stop(s))

RECURSIVE UrlDomains(_)
UrlDomains(urls) ==
    IF urls = <<>>
    THEN <<>>
    ELSE LET d == UrlDomain(Head(urls))
         IN  (IF d # <<>> THEN <<d>> ELSE <<>>) \o UrlDomains(Tail(urls))

\* set(domains + url_domains)
DomainSet(t) ==
    SeqToSet(FindAllDomains(t, 1) \o UrlDomains(FindAllUrls(t, 1)))

\* extract_urls: list(set(...)) has no fixed order, so every ordering is a result
extract_urls(text_) ==
    {[full_urls |-> FindAllUrls(OrEmpty(text_), 1), domains |-> ds] :
         ds \in ListsOfSet(DomainSet(OrEmpty(text_)))}

(***************************************************************************)
(* extract_product_names                                                   *)
(***************************************************************************)
\* \b at the gap after the first p characters of t
WordBoundary(t, p) ==
    (p >= 1 /\ t[p] \in WordChars) # (p < Len(t) /\ t[p + 1] \in WordChars)

\* the match without re.IGNORECASE
BrandMatchAtCaseSensitive(t, product, s) ==
    /\ s + Len(product) - 1 <= Len(t)
    /\ WordBoundary(t, s - 1)
    /\ \A k \in 1..Len(product) : t[s + k - 1] = product[k]
    /\ WordBoundary(t, s - 1 + Len(product))

\* \b product \b with re.IGNORECASE, the match starting at index s
BrandMatchAt(t, product, s) ==
    /\ s + Len(product) - 1 <= Len(t)
    /\ WordBoundary(t, s - 1)
    /\ \A k \in 1..Len(product) : LowerChar(t[s + k - 1]) = LowerChar(product[k])
    /\ WordBoundary(t, s - 1 + Len(product))

\* re.search: the leftmost start is tried first, then the next
RECURSIVE BrandSearch(_, _, _)
BrandSearch(t, product, s) ==
    IF s + Len(product) - 1 > Len(t)
    THEN FALSE
    ELSE BrandMatchAt(t, product, s) \/ BrandSearch(t, product, s + 1)

\* the loop of extract_product_names over the brands left to try
RECURSIVE ProductMentions(_, _)
ProductMentions(brands, t) ==
    IF brands = <<>>
    THEN <<>>
    ELSE (IF BrandSearch(t, Head(brands), 1) THEN <<Head(brands)>> ELSE <<>>)
             \o ProductMentions(Tail(brands), t)

extract_product_names(brand_list_, text_) == ProductMentions(brand_list_, OrEmpty(text_))

(***************************************************************************)
(* analyze_response: one record per ordering extract_urls may return       *)
(***************************************************************************)
analyze_response(brand_list_, response_text) ==
    {[resources |-> r,
      products |-> extract_product_names(brand_list_, response_text),
      response_length |-> Len(OrEmpty(response_text))] : r \in extract_urls(response_text)}

(***************************************************************************)
(* html_escape and generate_html_report.  The document is modelled from    *)
(* the first panel of the body to the end of the Responses grid, without   *)
(* the layout whitespace between tags; the head (style, script), the h1    *)
(* and the search box hold no interpolated text.                           *)
(***************************************************************************)
RECURSIVE ConcatRange(_, _, _)
ConcatRange(parts, lo, hi) ==
    IF lo > hi THEN <<>>
    ELSE IF lo = hi THEN parts[lo]
    ELSE LET mid == (lo + hi) \div 2
         IN  ConcatRange(parts, lo, mid) \o ConcatRange(parts, mid + 1, hi)

\* ''.join(parts)
Concat(parts) == ConcatRange(parts, 1, Len(parts))

\* s.replace(c, rep) for a one-character c
ReplaceChar(s, c, rep) ==
    Concat([k \in 1..Len(s) |-> IF s[k] = c THEN rep ELSE <<s[k]>>])

\* html_escape without its replacement of "<"
html_escape_without_lt(s) ==
    IF s = None
    THEN <<>>
    ELSE ReplaceChar(
             ReplaceChar(
                 ReplaceChar(s, "&", <<"&", "a", "m", "p", ";">>),
                 ">", <<"&", "g", "t", ";">>),
             "\"", <<"&", "q", "u", "o", "t", ";">>)

html_escape(s) ==
    IF s = None
    THEN <<>>
    ELSE ReplaceChar(
             ReplaceChar(
                 ReplaceChar(
                     ReplaceChar(s, "&", <<"&", "a", "m", "p", ";">>),
                     "<", <<"&", "l", "t", ";">>),
                 ">", <<"&", "g", "t", ";">>),
             "\"", <<"&", "q", "u", "o", "t", ";">>)

\* (q + " " + a).lower().replace("\n", " ").replace('"', "'")
data_search(q, a) ==
    ReplaceChar(ReplaceChar(Lower(q \o <<" ">> \o a), "\n", <<" ">>), "\"", <<"'">>)

\* an f-string's rendering of an int
RECURSIVE IntToStr(_)
IntToStr(n) ==
    LET digit == <<"0", "1", "2", "3", "4", "5", "6", "7", "8", "9">>[(n % 10) + 1]
    IN  IF n < 10 THEN <<digit>> ELSE IntToStr(n \div 10) \o <<digit>>

\* line 131, up to the attribute value
TplCardOpen ==
    <<"<", "d", "e", "t", "a", "i", "l", "s", " ", "c", "l", "a", "s", "s", "=", "\"", "r",
      "e", "s", "u", "l", "t", "\"", " ", "d", "a", "t", "a", "-", "s", "e", "a", "r", "c",
      "h", "=", "\"">>

\* lines 131-132
TplCardSummary ==
    <<"\"", ">", "<", "s", "u", "m", "m", "a", "r", "y", " ", "c", "l", "a", "s", "s", "=",
      "\"", "q", "u", "e", "s", "t", "i", "o", "n", "\"", ">", "Q", ":", " ">>

\* lines 132-133
TplCardAnswer ==
    <<"<", "/", "s", "u", "m", "m", "a", "r", "y", ">", "<", "d", "i", "v", " ", "c", "l",
      "a", "s", "s", "=", "\"", "a", "n", "s", "w", "e", "r", "\"", ">">>

\* lines 133-134
TplCardClose ==
    <<"<", "/", "d", "i", "v", ">", "<", "/", "d", "e", "t", "a", "i", "l", "s", ">">>

\* lines 220-221
TplPanelModel ==
    <<"<", "d", "i", "v", " ", "c", "l", "a", "s", "s", "=", "\"", "s", "e", "c", "t", "i",
      "o", "n", " ", "p", "a", "n", "e", "l", "\"", ">", "<", "d", "i", "v", ">", "<", "s",
      "p", "a", "n", " ", "c", "l", "a", "s", "s", "=", "\"", "p", "i", "l", "l", "\"",
      ">", "M", "o", "d", "e", "l", "<", "/", "s", "p", "a", "n", ">", " ">>

\* lines 221-224
TplPanelSystem ==
    <<"<", "/", "d", "i", "v", ">", "<", "d", "i", "v", " ", "s", "t", "y", "l", "e", "=",
      "\"", "m", "a", "r", "g", "i", "n", "-", "t", "o", "p", ":", "1", "0", "p", "x", ";",
      "\"", ">", "<", "s", "p", "a", "n", " ", "c", "l", "a", "s", "s", "=", "\"", "p",
      "i", "l", "l", "\"", ">", "S", "y", "s", "t", "e", "m", " ", "p", "r", "o", "m", "p",
      "t", "<", "/", "s", "p", "a", "n", ">", "<", "p", "r", "e", " ", "s", "t", "y", "l",
      "e", "=", "\"", "m", "a", "r", "g", "i", "n", ":", "8", "p", "x", " ", "0", " ", "0",
      ";", " ", "w", "h", "i", "t", "e", "-", "s", "p", "a", "c", "e", ":", "p", "r", "e",
      "-", "w", "r", "a", "p", ";", "\"", ">">>

\* lines 224-228
TplPanelUser ==
    <<"<", "/", "p", "r", "e", ">", "<", "/", "d", "i", "v", ">", "<", "d", "i", "v", " ",
      "s", "t", "y", "l", "e", "=", "\"", "m", "a", "r", "g", "i", "n", "-", "t", "o", "p",
      ":", "1", "0", "p", "x", ";", "\"", ">", "<", "s", "p", "a", "n", " ", "c", "l", "a",
      "s", "s", "=", "\"", "p", "i", "l", "l", "\"", ">", "U", "s", "e", "r", " ", "p",
      "r", "o", "m", "p", "t", " ", "t", "e", "m", "p", "l", "a", "t", "e", "<", "/", "s",
      "p", "a", "n", ">", "<", "p", "r", "e", " ", "s", "t", "y", "l", "e", "=", "\"", "m",
      "a", "r", "g", "i", "n", ":", "8", "p", "x", " ", "0", " ", "0", ";", " ", "w", "h",
      "i", "t", "e", "-", "s", "p", "a", "c", "e", ":", "p", "r", "e", "-", "w", "r", "a",
      "p", ";", "\"", ">">>

\* lines 228-234
TplPanelQuestions ==
    <<"<", "/", "p", "r", "e", ">", "<", "/", "d", "i", "v", ">", "<", "/", "d", "i", "v",
      ">", "<", "d", "i", "v", " ", "c", "l", "a", "s", "s", "=", "\"", "s", "e", "c", "t",
      "i", "o", "n", " ", "p", "a", "n", "e", "l", "\"", ">", "<", "h", "2", ">", "Q", "u",
      "e", "s", "t", "i", "o", "n", "s", " ", "a", "s", "k", "e", "d", "<", "/", "h", "2",
      ">", "<", "o", "l", " ", "c", "l", "a", "s", "s", "=", "\"", "g", "r", "i", "d",
      "\"", " ", "s", "t", "y", "l", "e", "=", "\"", "m", "a", "r", "g", "i", "n", "-",
      "t", "o", "p", ":", "1", "0", "p", "x", ";", "\"", ">">>

\* lines 235, 242
TplItemOpen ==
    <<"<", "l", "i", ">">>

\* lines 235, 242
TplItemClose ==
    <<"<", "/", "l", "i", ">">>

\* lines 236-241
TplPanelBrands ==
    <<"<", "/", "o", "l", ">", "<", "/", "d", "i", "v", ">", "<", "d", "i", "v", " ", "c",
      "l", "a", "s", "s", "=", "\"", "s", "e", "c", "t", "i", "o", "n", " ", "p", "a", "n",
      "e", "l", "\"", ">", "<", "h", "2", ">", "B", "r", "a", "n", "d", " ", "m", "e", "n",
      "t", "i", "o", "n", "s", "<", "/", "h", "2", ">", "<", "u", "l", " ", "c", "l", "a",
      "s", "s", "=", "\"", "b", "r", "a", "n", "d", "-", "l", "i", "s", "t", "\"", " ",
      "s", "t", "y", "l", "e", "=", "\"", "m", "a", "r", "g", "i", "n", "-", "t", "o", "p",
      ":", "1", "0", "p", "x", ";", "\"", ">">>

\* line 242
TplBadgeOpen ==
    <<" ", "<", "s", "p", "a", "n", " ", "c", "l", "a", "s", "s", "=", "\"", "b", "a", "d",
      "g", "e", "\"", ">">>

\* line 242
TplBadgeClose ==
    <<"<", "/", "s", "p", "a", "n", ">">>

\* lines 243-253
TplPanelResponses ==
    <<"<", "/", "u", "l", ">", "<", "/", "d", "i", "v", ">", "<", "d", "i", "v", " ", "c",
      "l", "a", "s", "s", "=", "\"", "s", "e", "c", "t", "i", "o", "n", "\"", ">", "<",
      "h", "2", ">", "R", "e", "s", "p", "o", "n", "s", "e", "s", "<", "/", "h", "2", ">",
      "<", "d", "i", "v", " ", "c", "l", "a", "s", "s", "=", "\"", "g", "r", "i", "d",
      "\"", " ", "s", "t", "y", "l", "e", "=", "\"", "m", "a", "r", "g", "i", "n", "-",
      "t", "o", "p", ":", "1", "0", "p", "x", ";", "\"", ">">>

\* lines 255-256
TplDocClose ==
    <<"<", "/", "d", "i", "v", ">", "<", "/", "d", "i", "v", ">">>

\* one entry of result_cards
RenderCard(r) ==
    LET q == OrEmpty(r.question)
        a == OrEmpty(r.response)
    IN  TplCardOpen \o html_escape(data_search(q, a)) \o TplCardSummary
            \o html_escape(q) \o TplCardAnswer \o html_escape(a) \o TplCardClose

\* mentions["products"].get(brand, 0)
CountOf(counter, key) == IF key \in DOMAIN counter THEN counter[key] ELSE 0

generate_html_report(results_, mentions_, brand_list_, system_prompt_, user_prompt_, questions_, model_) ==
    TplPanelModel \o html_escape(model_)
        \o TplPanelSystem \o html_escape(system_prompt_)
        \o TplPanelUser \o html_escape(user_prompt_)
        \o TplPanelQuestions
        \o Concat([k \in 1..Len(questions_) |->
                      TplItemOpen \o html_escape(questions_[k]) \o TplItemClose])
        \o TplPanelBrands
        \o Concat([k \in 1..Len(brand_list_) |->
                      TplItemOpen \o html_escape(brand_list_[k]) \o TplBadgeOpen
                          \o IntToStr(CountOf(mentions_.products, brand_list_[k]))
                          \o TplBadgeClose \o TplItemClose])
        \o TplPanelResponses
        \o Concat([k \in 1..Len(results_) |-> RenderCard(results_[k])])
        \o TplDocClose

(***************************************************************************)
(* The browser's reading of the document: the tokenizer's data, tag and    *)
(* quoted attribute value states, character references, and getAttribute.  *)
(***************************************************************************)
\* <<next state, class of the character>>
TokStep(st, c) ==
    CASE st = "data" -> IF c = "<" THEN <<"tag", "markup">> ELSE <<"data", "text">>
      [] st = "tag" ->
            IF c = ">" THEN <<"data", "markup">>
            ELSE IF c = "\"" THEN <<"dq", "quote">>
            ELSE IF c = "'" THEN <<"sq", "quote">>
            ELSE <<"tag", "markup">>
      [] st = "dq" -> IF c = "\"" THEN <<"tag", "quote">> ELSE <<"dq", "value">>
      [] st = "sq" -> IF c = "'" THEN <<"tag", "quote">> ELSE <<"sq", "value">>

\* the classes of doc[lo..hi] read from state st, and the state after them
RECURSIVE Scan(_, _, _, _)
ScanJoin(left, right) == [st |-> right.st, cls |-> left.cls \o right.cls]

ScanRest(doc, lo, hi, left) ==
    ScanJoin(left,
             CASE left.st = "data" -> Scan(doc, lo, hi, "data")
               [] left.st = "tag" -> Scan(doc, lo, hi, "tag")
               [] left.st = "dq" -> Scan(doc, lo, hi, "dq")
               [] left.st = "sq" -> Scan(doc, lo, hi, "sq"))

ScanChar(r) == [st |-> r[1], cls |-> <<r[2]>>]

Scan(doc, lo, hi, st) ==
    IF lo = hi
    THEN ScanChar(TokStep(st, doc[lo]))
    ELSE ScanRest(doc, ((lo + hi) \div 2) + 1, hi, Scan(doc, lo, (lo + hi) \div 2, st))

Classes(doc) == IF doc = <<>> THEN <<>> ELSE Scan(doc, 1, Len(doc), "data").cls

\* the length of the character reference starting at k, 0 when there is none
EntityLen(s, k) ==
    IF HasAt(s, k, <<"&", "a", "m", "p", ";">>) THEN 5
    ELSE IF HasAt(s, k, <<"&", "l", "t", ";">>) THEN 4
    ELSE IF HasAt(s, k, <<"&", "g", "t", ";">>) THEN 4
    ELSE IF HasAt(s, k, <<"&", "q", "u", "o", "t", ";">>) THEN 6
    ELSE 0

EntityChar(s, k) ==
    CASE s[k + 1] = "a" -> "&"
      [] s[k + 1] = "l" -> "<"
      [] s[k + 1] = "g" -> ">"
      [] OTHER -> "\""

DecodeEntities(s) ==
    Concat([k \in 1..Len(s) |->
        IF EntityLen(s, k) # 0 THEN <<EntityChar(s, k)>>
        ELSE IF \E j \in (k - 5)..(k - 1) : j >= 1 /\ EntityLen(s, j) > k - j THEN <<>>
        ELSE <<s[k]>>])

\* the elements and attribute names of the document, without text and values
SkeletonOf(doc, cls) ==
    Concat([k \in 1..Len(doc) |->
        IF cls[k] \in {"markup", "quote"} THEN <<doc[k]>> ELSE <<>>])

Skeleton(doc) == SkeletonOf(doc, Classes(doc))

\* the visible text, each tag replaced by one separator
NodeSep == "<>"

TextContentOf(doc, cls) ==
    DecodeEntities(Concat([k \in 1..Len(doc) |->
        IF cls[k] = "text" THEN <<doc[k]>>
        ELSE IF cls[k] = "markup" /\ doc[k] = ">" THEN <<NodeSep>>
        ELSE <<>>]))

TextContent(doc) == TextContentOf(doc, Classes(doc))

AttrDataSearch == <<"d", "a", "t", "a", "-", "s", "e", "a", "r", "c", "h", "=", "\"">>

\* el.getAttribute('data-search') of each element carrying it, in document order
RECURSIVE AttrValuesFrom(_, _, _)
AttrValuesFrom(doc, cls, p) ==
    LET starts == {k \in p..Len(doc) :
                      /\ HasAt(doc, k, AttrDataSearch)
                      /\ \A m \in 0..(Len(AttrDataSearch) - 2) : cls[k + m] = "markup"
                      /\ cls[k + Len(AttrDataSearch) - 1] = "quote"}
    IN  IF starts = {}
        THEN <<>>
        ELSE LET k == CHOOSE x \in starts : \A y \in starts : x <= y
                 v == k + Len(AttrDataSearch)
                 e == CHOOSE x \in v..(Len(doc) + 1) :
                          /\ x > Len(doc) \/ cls[x] = "quote"
                          /\ \A y \in v..(x - 1) : cls[y] # "quote"
             IN  <<DecodeEntities(Slice(doc, v, e))>> \o AttrValuesFrom(doc, cls, e)

DataSearchValues(doc) == AttrValuesFrom(doc, Classes(doc), 1)

\* the document as the browser holds it once read
DocumentOf(doc, cls) ==
    [skeleton |-> SkeletonOf(doc, cls),
     text |-> TextContentOf(doc, cls),
     cards |-> AttrValuesFrom(doc, cls, 1)]

ReadDocument(doc) == DocumentOf(doc, Classes(doc))

\* hay.indexOf(q) !== -1
Contains(hay, q) == \E p \in 1..(Len(hay) + 1) : HasAt(hay, p, q)

\* filter(): the style.display of one card for the typed input value
FilterDisplay(hay, value) ==
    LET q == Strip(Lower(value))
    IN  IF q = <<>> THEN ""
        ELSE IF hay # <<>> /\ Contains(hay, q) THEN "" ELSE "none"

(***************************************************************************)
(* The state of one execution of the script, of the report in the browser, *)
(* and of the stand-alone uses of the aggregation and of the extractor.    *)
(***************************************************************************)
VARIABLES
    api_key,          \* st.text_input: the credential
    brand_input,      \* st.text_area: brand names, one per line
    questions_input,  \* st.text_area: questions, one per line
    button,           \* whether "Run Analysis" was pressed
    system_prompt, user_prompt, model,
    brand_list, questions, limit,
    pc,               \* the position of the script
    i,                \* the loop index of enumerate(questions[:limit])
    resp, analysis, results, mentions,
    pos,              \* the index of the inner for loops over domains and products
    sent,             \* the requests handed to the Model Client, in order
    replies,          \* what get_response returned for each of them
    analyzed,         \* the number of calls of analyze_response
    errors,           \* the number of st.error notifications
    outputs,          \* the outputs rendered so far
    summary, html,
    dom,              \* what the browser reads from the report
    query, display,   \* the search input's value and each card's style.display
    records, folded,  \* analysis records and the indexes of those folded
    text, products    \* extract_product_names's text and result

vars ==
    <<api_key, brand_input, questions_input, button, system_prompt, user_prompt, model,
      brand_list, questions, limit, pc, i, resp, analysis, results, mentions, pos, sent,
      replies, analyzed, errors, outputs, summary, html, dom, query, display, records,
      folded, text, products>>

inputVars ==
    <<api_key, brand_input, questions_input, button, system_prompt, user_prompt, model>>

reportVars == <<dom, query, display>>

otherVars == <<records, folded, text, products>>

(***************************************************************************)
(* Inputs.                                                                 *)
(***************************************************************************)
\* Counter()
EmptyCounter == [x \in {} |-> 0]

EmptyMentions == [domains |-> EmptyCounter, products |-> EmptyCounter]

ApiKeys == {<<>>, <<"s", "k">>}

BrandInputs ==
    {<<"U", "B", "S", "\n", "A", "x", "a">>,
     <<"U", "B", "S", "\n", " ", "U", "B", "S", " ", "\n", "\n">>,
     <<>>}

\* the j-th question line, and n of them after a blank line
QuestionLine(j) == <<"q">> \o IntToStr(j)

QuestionsInput(n) ==
    <<" ", "\n">> \o Concat([j \in 1..n |-> QuestionLine(j) \o <<" ", "\n">>])

\* what the Model Client may answer
Responses ==
    {<<"U", "B", "S", ":", " ", "u", "b", "s", ".", "c", "o", "m", ",", " ", "h", "t", "t", "p", ":", "/", "/", "w", "w", "w", ".", "u", "b", "s", ".", "c", "o", "m", "/", "a", " ", "o", "r", " ", "a", "x", "a", ".", "c", "o", "m">>,
     <<"n", "o">>,
     <<>>}

DefaultSystemPrompt == <<"s", "y", "s">>

DefaultUserPrompt == <<"I", ":", " ", "{", "q", "u", "e", "s", "t", "i", "o", "n", "}">>

DefaultModel == <<"g", "p", "t", "-", "4", "o">>

(***************************************************************************)
(* get_response: the request built for one question                        *)
(***************************************************************************)
QuestionPlaceholder == <<"{", "q", "u", "e", "s", "t", "i", "o", "n", "}">>

\* s.replace(needle, rep) for a non-empty needle
RECURSIVE ReplaceAll(_, _, _)
ReplaceAll(s, needle, rep) ==
    IF s = <<>> THEN <<>>
    ELSE IF HasAt(s, 1, needle)
         THEN rep \o ReplaceAll(SubSeq(s, Len(needle) + 1, Len(s)), needle, rep)
         ELSE <<Head(s)>> \o ReplaceAll(Tail(s), needle, rep)

Request(question) ==
    [model |-> model,
     system |-> system_prompt,
     user |-> ReplaceAll(user_prompt, QuestionPlaceholder, question)]

\* the response analyzed whatever get_response returned
AlwaysAnalyzed(r) == TRUE

\* `if resp:`
Truthy(r) == r # None /\ r # <<>>

\* the button alone, the credential not looked at
RunRequestedWithoutKey == button

\* `if api_key and st.button(...)`
RunRequested == api_key # <<>> /\ button

\* counter[key] = 1: the earlier count is lost
IncrOverwrite(counter, key) == (key :> 1) @@ counter

\* counter[key] += 1
Incr(counter, key) ==
    IF key \in DOMAIN counter
    THEN [counter EXCEPT ![key] = @ + 1]
    ELSE (key :> 1) @@ counter

\* questions[:limit]
Batch == Take(questions, limit)

(***************************************************************************)
(* The script.                                                             *)
(***************************************************************************)
Init ==
    /\ api_key \in ApiKeys
    /\ brand_input \in BrandInputs
    /\ questions_input \in {QuestionsInput(n) : n \in 0..MaxQuestions}
    /\ button \in BOOLEAN
    /\ system_prompt = DefaultSystemPrompt
    /\ user_prompt = DefaultUserPrompt
    /\ model = DefaultModel
    /\ brand_list = <<>>
    /\ questions = <<>>
    /\ limit = 0
    /\ pc = "start"
    /\ i = 0
    /\ resp = None
    /\ analysis = None
    /\ results = <<>>
    /\ mentions = EmptyMentions
    /\ pos = 1
    /\ sent = <<>>
    /\ replies = <<>>
    /\ analyzed = 0
    /\ errors = 0
    /\ outputs = {}
    /\ summary = None
    /\ html = None
    /\ dom = None
    /\ query = <<>>
    /\ display = <<>>
    /\ records = <<>>
    /\ folded = {}
    /\ text = <<>>
    /\ products = <<>>

\* lines 278 and 286: the two lists are read from the text areas
ParseInputs ==
    /\ pc = "start"
    /\ brand_list' = ParseLines(brand_input)
    /\ questions' = ParseLines(questions_input)
    /\ pc' = "check_questions"
    /\ UNCHANGED <<inputVars, limit, i, resp, analysis, results, mentions, pos, sent,
                   replies, analyzed, errors, outputs, summary, html, reportVars,
                   otherVars>>

\* lines 290-291: st.stop() with no question
StopNoQuestions ==
    /\ pc = "check_questions"
    /\ Len(questions) = 0
    /\ pc' = "stopped"
    /\ UNCHANGED <<inputVars, brand_list, questions, limit, i, resp, analysis, results,
                   mentions, pos, sent, replies, analyzed, errors, outputs, summary, html,
                   reportVars, otherVars>>

\* line 292: the slider's value, between 1 and len(questions)
ChooseLimit ==
    /\ pc = "check_questions"
    /\ Len(questions) # 0
    /\ limit' \in 1..Len(questions)
    /\ pc' = "check_run"
    /\ UNCHANGED <<inputVars, brand_list, questions, i, resp, analysis, results,
                   mentions, pos, sent, replies, analyzed, errors, outputs, summary, html,
                   reportVars, otherVars>>

\* line 295, condition false: the script ends without a run
NoRun ==
    /\ pc = "check_run"
    /\ ~RunRequested
    /\ pc' = "idle"
    /\ UNCHANGED <<inputVars, brand_list, questions, limit, i, resp, analysis, results,
                   mentions, pos, sent, replies, analyzed, errors, outputs, summary, html,
                   reportVars, otherVars>>

\* lines 295-307: the analyzer is built, results and mentions start empty
StartRun ==
    /\ pc = "check_run"
    /\ RunRequested
    /\ results' = <<>>
    /\ mentions' = EmptyMentions
    /\ i' = 0
    /\ pc' = "loop"
    /\ UNCHANGED <<inputVars, brand_list, questions, limit, resp, analysis, pos, sent,
                   replies, analyzed, errors, outputs, summary, html, reportVars,
                   otherVars>>

\* lines 309, 83-93: the Model Client answers the question
GetResponseOk ==
    /\ pc = "loop"
    /\ i < Len(Batch)
    /\ \E r \in Responses :
          /\ resp' = r
          /\ replies' = Append(replies, r)
    /\ sent' = Append(sent, Request(Batch[i + 1]))
    /\ pc' = "branch"
    /\ UNCHANGED <<inputVars, brand_list, questions, limit, i, analysis, results,
                   mentions, pos, analyzed, errors, outputs, summary, html, reportVars,
                   otherVars>>

\* the request raises and nothing catches it: the script ends there
GetResponseRaises ==
    /\ pc = "loop"
    /\ i < Len(Batch)
    /\ sent' = Append(sent, Request(Batch[i + 1]))
    /\ errors' = errors + 1
    /\ replies' = Append(replies, None)
    /\ pc' = "stopped"
    /\ UNCHANGED <<inputVars, brand_list, questions, limit, i, resp, analysis, results,
                   mentions, pos, analyzed, outputs, summary, html, reportVars, otherVars>>

\* lines 309, 94-97: the request raises; st.error, a pause, None
GetResponseFail ==
    /\ pc = "loop"
    /\ i < Len(Batch)
    /\ sent' = Append(sent, Request(Batch[i + 1]))
    /\ errors' = errors + 1
    /\ resp' = None
    /\ replies' = Append(replies, None)
    /\ pc' = "branch"
    /\ UNCHANGED <<inputVars, brand_list, questions, limit, i, analysis, results,
                   mentions, pos, analyzed, outputs, summary, html, reportVars, otherVars>>

\* analyze_response over the brand lists and the responses of a run, computed
\* once: <<brand list, response, the records analyze_response may return>>
AnalysisTable ==
    {<<b, r, analyze_response(b, r)>> :
        b \in {ParseLines(x) : x \in BrandInputs}, r \in Responses \cup {None}}

\* analyzer.analyze_response(resp)
Analyses(brand_list_, r) ==
    UNION {row[3] : row \in {x \in AnalysisTable : x[1] = brand_list_ /\ x[2] = r}}

\* the response is analyzed and counted, but the entry is not appended
AnalyzeWithoutAppend ==
    /\ pc = "branch"
    /\ Truthy(resp)
    /\ \E a \in Analyses(brand_list, resp) : analysis' = a
    /\ analyzed' = analyzed + 1
    /\ pos' = 1
    /\ pc' = "count_domains"
    /\ UNCHANGED <<inputVars, brand_list, questions, limit, i, resp, results, mentions,
                   sent, replies, errors, outputs, summary, html, reportVars, otherVars>>

\* lines 310-316: the response is analyzed and the entry appended
AnalyzeAppend ==
    /\ pc = "branch"
    /\ Truthy(resp)
    /\ \E a \in Analyses(brand_list, resp) :
          /\ analysis' = a
          /\ results' = Append(results,
                               [question |-> Batch[i + 1], response |-> resp, analysis |-> a])
    /\ analyzed' = analyzed + 1
    /\ pos' = 1
    /\ pc' = "count_domains"
    /\ UNCHANGED <<inputVars, brand_list, questions, limit, i, resp, mentions, sent,
                   replies, errors, outputs, summary, html, reportVars, otherVars>>

\* line 310, condition false
SkipAnalysis ==
    /\ pc = "branch"
    /\ ~Truthy(resp)
    /\ pc' = "progress"
    /\ UNCHANGED <<inputVars, brand_list, questions, limit, i, resp, analysis, results,
                   mentions, pos, sent, replies, analyzed, errors, outputs, summary, html,
                   reportVars, otherVars>>

\* lines 317-318: one turn of the loop over the domains
CountDomain ==
    /\ pc = "count_domains"
    /\ pos <= Len(analysis.resources.domains)
    /\ mentions' = [mentions EXCEPT !.domains = Incr(@, analysis.resources.domains[pos])]
    /\ pos' = pos + 1
    /\ UNCHANGED <<inputVars, brand_list, questions, limit, pc, i, resp, analysis,
                   results, sent, replies, analyzed, errors, outputs, summary, html,
                   reportVars, otherVars>>

EndCountDomains ==
    /\ pc = "count_domains"
    /\ pos > Len(analysis.resources.domains)
    /\ pos' = 1
    /\ pc' = "count_products"
    /\ UNCHANGED <<inputVars, brand_list, questions, limit, i, resp, analysis, results,
                   mentions, sent, replies, analyzed, errors, outputs, summary, html,
                   reportVars, otherVars>>

\* lines 319-320: one turn of the loop over the products
CountProduct ==
    /\ pc = "count_products"
    /\ pos <= Len(analysis.products)
    /\ mentions' = [mentions EXCEPT !.products = Incr(@, analysis.products[pos])]
    /\ pos' = pos + 1
    /\ UNCHANGED <<inputVars, brand_list, questions, limit, pc, i, resp, analysis,
                   results, sent, replies, analyzed, errors, outputs, summary, html,
                   reportVars, otherVars>>

EndCountProducts ==
    /\ pc = "count_products"
    /\ pos > Len(analysis.products)
    /\ pos' = 1
    /\ pc' = "progress"
    /\ UNCHANGED <<inputVars, brand_list, questions, limit, i, resp, analysis, results,
                   mentions, sent, replies, analyzed, errors, outputs, summary, html,
                   reportVars, otherVars>>

\* line 321, and the next turn of the loop of line 308
Progress ==
    /\ pc = "progress"
    /\ i' = i + 1
    /\ pc' = "loop"
    /\ UNCHANGED <<inputVars, brand_list, questions, limit, resp, analysis, results,
                   mentions, pos, sent, replies, analyzed, errors, outputs, summary, html,
                   reportVars, otherVars>>

\* line 308: the list is exhausted; lines 324-333: brand counts and the listing
ShowSummary ==
    /\ pc = "loop"
    /\ i >= Len(Batch)
    /\ outputs' = outputs \cup {"brand_summary", "detailed_responses"}
    /\ pc' = "downloads"
    /\ UNCHANGED <<inputVars, brand_list, questions, limit, i, resp, analysis, results,
                   mentions, pos, sent, replies, analyzed, errors, summary, html,
                   reportVars, otherVars>>

\* lines 336-357: the summary object and the two JSON downloads
OfferDownloads ==
    /\ pc = "downloads"
    /\ summary' = [domains |-> mentions.domains,
                   products |-> mentions.products,
                   total_questions |-> Len(results),
                   model_used |-> model]
    /\ outputs' = outputs \cup {"detailed_json", "summary_json"}
    /\ pc' = "report"
    /\ UNCHANGED <<inputVars, brand_list, questions, limit, i, resp, analysis, results,
                   mentions, pos, sent, replies, analyzed, errors, html, reportVars,
                   otherVars>>

\* lines 360-383: the HTML report, its preview, link and download
BuildReport ==
    /\ pc = "report"
    /\ html' = generate_html_report(results, mentions, brand_list, system_prompt,
                                    user_prompt, Batch, model)
    /\ outputs' = outputs \cup {"html_report"}
    /\ pc' = "done"
    /\ UNCHANGED <<inputVars, brand_list, questions, limit, i, resp, analysis, results,
                   mentions, pos, sent, replies, analyzed, errors, summary, reportVars,
                   otherVars>>

Next ==
    \/ ParseInputs
    \/ StopNoQuestions
    \/ ChooseLimit
    \/ NoRun
    \/ StartRun
    \/ GetResponseOk
    \/ GetResponseFail
    \/ AnalyzeAppend
    \/ SkipAnalysis
    \/ CountDomain
    \/ EndCountDomains
    \/ CountProduct
    \/ EndCountProducts
    \/ Progress
    \/ ShowSummary
    \/ OfferDownloads
    \/ BuildReport

Spec == Init /\ [][Next]_vars

\* the steps of a run, from the first request to the downloads
RunStep ==
    \/ GetResponseOk
    \/ GetResponseFail
    \/ AnalyzeAppend
    \/ SkipAnalysis
    \/ CountDomain
    \/ EndCountDomains
    \/ CountProduct
    \/ EndCountProducts
    \/ Progress
    \/ ShowSummary
    \/ OfferDownloads

\* the script is sequential code and every request returns or raises: a step
\* that can be taken is taken
FairSpec == Spec /\ WF_vars(RunStep)

(***************************************************************************)
(* The aggregation alone: the records of a run folded in any order.        *)
(***************************************************************************)
\* lines 317-320 for one record: every listed key is counted once
RECURSIVE IncrEach(_, _)
IncrEach(counter, keys) ==
    IF keys = <<>> THEN counter ELSE IncrEach(Incr(counter, Head(keys)), Tail(keys))

Fold(m, a) ==
    [domains |-> IncrEach(m.domains, a.resources.domains),
     products |-> IncrEach(m.products, a.products)]

FoldResponses == (Responses \ {<<>>}) \cup {<<"A", "x", "a", " ", "a", "x", "a", ".", "c", "o", "m">>}

\* every sequence over S of length at most n
SeqsUpTo(S, n) == UNION {[1..m -> S] : m \in 0..n}

InitFold ==
    /\ api_key = <<"s", "k">>
    /\ brand_input \in BrandInputs
    /\ questions_input = <<>>
    /\ button = TRUE
    /\ system_prompt = DefaultSystemPrompt
    /\ user_prompt = DefaultUserPrompt
    /\ model = DefaultModel
    /\ brand_list = ParseLines(brand_input)
    /\ questions = <<>>
    /\ limit = 0
    /\ pc = "fold"
    /\ i = 0
    /\ resp = None
    /\ analysis = None
    /\ results = <<>>
    /\ mentions = EmptyMentions
    /\ pos = 1
    /\ sent = <<>>
    /\ replies = <<>>
    /\ analyzed = 0
    /\ errors = 0
    /\ outputs = {}
    /\ summary = None
    /\ html = None
    /\ dom = None
    /\ query = <<>>
    /\ display = <<>>
    /\ records \in SeqsUpTo(UNION {analyze_response(brand_list, r) : r \in FoldResponses},
                            MaxRecords)
    /\ folded = {}
    /\ text = <<>>
    /\ products = <<>>

\* one record, whichever is still left, is folded into the counters
FoldRecord ==
    /\ pc = "fold"
    /\ \E j \in (1..Len(records)) \ folded :
          /\ mentions' = Fold(mentions, records[j])
          /\ folded' = folded \cup {j}
    /\ UNCHANGED <<inputVars, brand_list, questions, limit, pc, i, resp, analysis,
                   results, pos, sent, replies, analyzed, errors, outputs, summary, html,
                   reportVars, records, text, products>>

NextFold == FoldRecord

SpecFold == InitFold /\ [][NextFold]_vars

(***************************************************************************)
(* extract_product_names alone, over every short text and brand list.      *)
(***************************************************************************)
ExtractChars == {"a", "A", "+", " "}

BrandSamples == {<<"a">>, <<"A", "a">>, <<"a", "+">>, <<"a", " ", "a">>}

InitExtract ==
    /\ api_key = <<"s", "k">>
    /\ brand_input = <<>>
    /\ questions_input = <<>>
    /\ button = TRUE
    /\ system_prompt = DefaultSystemPrompt
    /\ user_prompt = DefaultUserPrompt
    /\ model = DefaultModel
    /\ brand_list \in SeqsUpTo(BrandSamples, MaxBrands)
    /\ questions = <<>>
    /\ limit = 0
    /\ pc = "extract"
    /\ i = 0
    /\ resp = None
    /\ analysis = None
    /\ results = <<>>
    /\ mentions = EmptyMentions
    /\ pos = 1
    /\ sent = <<>>
    /\ replies = <<>>
    /\ analyzed = 0
    /\ errors = 0
    /\ outputs = {}
    /\ summary = None
    /\ html = None
    /\ dom = None
    /\ query = <<>>
    /\ display = <<>>
    /\ records = <<>>
    /\ folded = {}
    /\ text \in SeqsUpTo(ExtractChars, MaxTextLen) \cup {None}
    /\ products = <<>>

\* lines 69-74
ExtractProducts ==
    /\ pc = "extract"
    /\ products' = extract_product_names(brand_list, text)
    /\ pc' = "extracted"
    /\ UNCHANGED <<inputVars, brand_list, questions, limit, i, resp, analysis, results,
                   mentions, pos, sent, replies, analyzed, errors, outputs, summary, html,
                   reportVars, records, folded, text>>

NextExtract == ExtractProducts

SpecExtract == InitExtract /\ [][NextExtract]_vars

(***************************************************************************)
(* The report alone: rendered from texts holding markup characters, read   *)
(* by the browser, and filtered through the search box.                    *)
(***************************************************************************)
ReportChars == {"B", "<", ">", "&", "\"", "'", "\n"}

ReportSamples ==
    {<<"&", "l", "t", ";">>,
     <<"\"", ">", "<", "b">>}

\* the two entries, the lists and the prompts all carry the texts s1 and s2
ReportResults(s1, s2) ==
    <<[question |-> s1, response |-> s2,
       analysis |-> CHOOSE a \in analyze_response(<<s1, s2>>, s2) : TRUE],
      [question |-> s2, response |-> s1,
       analysis |-> CHOOSE a \in analyze_response(<<s1, s2>>, s1) : TRUE]>>

ReportMentions(s1, s2) == [domains |-> EmptyCounter, products |-> (s2 :> 12)]

InitReport ==
    /\ api_key = <<"s", "k">>
    /\ brand_input = <<>>
    /\ questions_input = <<>>
    /\ button = TRUE
    /\ \E s1 \in SeqsUpTo(ReportChars, MaxStrLen) \ {<<>>}, s2 \in ReportSamples :
          /\ system_prompt = s1
          /\ user_prompt = s2
          /\ model = s2
          /\ brand_list = <<s1, s2>>
          /\ questions = <<s1, s2>>
          /\ results = ReportResults(s1, s2)
          /\ mentions = ReportMentions(s1, s2)
    /\ limit = 2
    /\ pc = "render"
    /\ i = 0
    /\ resp = None
    /\ analysis = None
    /\ pos = 1
    /\ sent = <<>>
    /\ replies = <<>>
    /\ analyzed = 0
    /\ errors = 0
    /\ outputs = {}
    /\ summary = None
    /\ html = None
    /\ dom = None
    /\ query = <<>>
    /\ display = <<>>
    /\ records = <<>>
    /\ folded = {}
    /\ text = <<>>
    /\ products = <<>>

\* lines 114-260
GenerateReport ==
    /\ pc = "render"
    /\ html' = generate_html_report(results, mentions, brand_list, system_prompt,
                                    user_prompt, questions, model)
    /\ pc' = "load"
    /\ UNCHANGED <<inputVars, brand_list, questions, limit, i, resp, analysis, results,
                   mentions, pos, sent, replies, analyzed, errors, outputs, summary,
                   reportVars, otherVars>>

\* lines 195-197: the browser has read the document; the cards are collected
LoadReport ==
    /\ pc = "load"
    /\ dom' = ReadDocument(html)
    /\ display' = [j \in 1..Len(dom'.cards) |-> ""]
    /\ pc' = "ready"
    /\ UNCHANGED <<inputVars, brand_list, questions, limit, i, resp, analysis, results,
                   mentions, pos, sent, replies, analyzed, errors, outputs, summary, html,
                   query, otherVars>>

\* the fragments of t, lowercased; a text input holds no line break
Fragments(t) ==
    {f \in {Lower(Slice(t, a, b)) : a \in 1..(Len(t) + 1), b \in 1..(Len(t) + 1)} :
        \A p \in 1..Len(f) : f[p] # "\n"}

Queries ==
    UNION {Fragments(results[j].question) \cup Fragments(OrEmpty(results[j].response)) :
              j \in 1..Len(results)}

\* lines 199-212: a query is typed in the empty search box and filter() runs
TypeQuery ==
    /\ pc = "ready"
    /\ \E v \in Queries \ {<<>>} :
          /\ query' = v
          /\ display' = [j \in 1..Len(dom.cards) |-> FilterDisplay(dom.cards[j], v)]
    /\ pc' = "filtered"
    /\ UNCHANGED <<inputVars, brand_list, questions, limit, i, resp, analysis, results,
                   mentions, pos, sent, replies, analyzed, errors, outputs, summary, html,
                   dom, otherVars>>

\* lines 199-212: the search box is cleared and filter() runs
ClearQuery ==
    /\ pc = "filtered"
    /\ query' = <<>>
    /\ display' = [j \in 1..Len(dom.cards) |-> FilterDisplay(dom.cards[j], <<>>)]
    /\ pc' = "ready"
    /\ UNCHANGED <<inputVars, brand_list, questions, limit, i, resp, analysis, results,
                   mentions, pos, sent, replies, analyzed, errors, outputs, summary, html,
                   dom, otherVars>>

NextReport ==
    \/ GenerateReport
    \/ LoadReport
    \/ TypeQuery
    \/ ClearQuery

SpecReport == InitReport /\ [][NextReport]_vars

(***************************************************************************)
(* Properties of the run (Spec, FairSpec).                                 *)
(***************************************************************************)
LoopPcs == {"loop", "branch", "count_domains", "count_products", "progress"}

AfterLoopPcs == {"downloads", "report", "done"}

PreRunPcs == {"start", "check_questions", "check_run", "stopped", "idle"}

\* the requests for the first n questions of the batch, in list order
RequestsFor(n) == [j \in 1..n |-> Request(Batch[j])]

\* C1: a failed request never stops the run: while the loop runs, the requests
\* sent are those of the questions reached so far, each once and in list order;
\* after the loop every question of the batch was sent exactly once; and a run
\* that entered the loop gets through the summary and the downloads to the report.
C1_FailureNeverStopsRun ==
    /\ [](pc \in LoopPcs => sent = RequestsFor(IF pc = "loop" THEN i ELSE i + 1))
    /\ [](pc \in AfterLoopPcs => sent = RequestsFor(Len(Batch)))
    /\ ((pc = "loop") ~> (pc = "report"))

\* a finished run in which two requests failed and one was answered
C1_Witness == pc = "report" /\ errors >= 2 /\ Len(results) >= 1

\* C2: after the loop, results holds one entry per question of the batch, in
\* order, and the entry of a failed request has no response and no analysis.
C2_OneEntryPerQuestion ==
    pc \in AfterLoopPcs =>
        /\ Len(results) = Len(Batch)
        /\ \A j \in 1..Len(Batch) :
              /\ results[j].question = Batch[j]
              /\ replies[j] = None =>
                    (results[j].response = None /\ results[j].analysis = None)

\* C3: while the question in hand is one whose request failed, no step changes
\* a counter table or calls analyze_response.
C3_FailedQuestionNotAggregated ==
    [][(pc \in LoopPcs /\ (resp = None \/ resp' = None))
          => (mentions' = mentions /\ analyzed' = analyzed)]_vars

\* a failed question, after an answered one has filled the counters
C3_Witness ==
    /\ pc = "progress"
    /\ resp = None
    /\ errors >= 1
    /\ DOMAIN mentions.domains # {}
    /\ DOMAIN mentions.products # {}

\* C5: every domain with a counter is among the domains of the analysis of an
\* entry already in results, between and inside the turns of the loop.
C5_CountedDomainsAreInResults ==
    \A d \in DOMAIN mentions.domains :
        \E j \in 1..Len(results) : d \in SeqToSet(results[j].analysis.resources.domains)

\* inside a turn: the second entry's first domain is counted, its second is not
C5_Witness ==
    /\ pc = "count_domains"
    /\ Len(results) = 2
    /\ pos = 2
    /\ Len(analysis.resources.domains) = 2

\* C6: with no question configured or an empty credential, no request is made,
\* the loop is not entered and no output is produced.
C6_ConfigErrorsBeforeAnyRequest ==
    (ParseLines(questions_input) = <<>> \/ api_key = <<>>) =>
        /\ sent = <<>>
        /\ pc \in PreRunPcs
        /\ outputs = {}
        /\ summary = None
        /\ html = None

\* the button pressed with an empty credential, the script at its end
C6_Witness ==
    /\ pc = "idle"
    /\ api_key = <<>>
    /\ button
    /\ questions # <<>>

\* C10: no brand's and no domain's count exceeds the number of entries in results.
C10_CountsAtMostEntries ==
    /\ \A d \in DOMAIN mentions.domains : mentions.domains[d] <= Len(results)
    /\ \A b \in DOMAIN mentions.products : mentions.products[b] <= Len(results)

(***************************************************************************)
(* Properties of the aggregation (SpecFold).                               *)
(***************************************************************************)
\* the number of times key occurs in the list
Occurrences(list, key) == Cardinality({p \in 1..Len(list) : list[p] = key})

\* the multiset of the keys of the records S, as a counter
RECURSIVE TotalOver(_, _, _)
TotalOver(S, Keys(_), key) ==
    IF S = {}
    THEN 0
    ELSE LET j == CHOOSE x \in S : TRUE
         IN  Occurrences(Keys(records[j]), key) + TotalOver(S \ {j}, Keys, key)

KeyCounts(S, Keys(_)) ==
    [key \in UNION {SeqToSet(Keys(records[j])) : j \in S} |-> TotalOver(S, Keys, key)]

DomainsOf(a) == a.resources.domains

ProductsOf(a) == a.products

\* C4: whatever the order in which records are folded, the counters are the
\* multiset of the domains and of the brands of the records folded so far.
C4_FoldIsOrderIndependent ==
    pc = "fold" =>
        /\ mentions.domains = KeyCounts(folded, DomainsOf)
        /\ mentions.products = KeyCounts(folded, ProductsOf)

\* three records folded, the first two different, a domain counted twice
C4_Witness ==
    /\ pc = "fold"
    /\ Len(records) = 3
    /\ folded = {1, 2, 3}
    /\ records[1] # records[2]
    /\ \E d \in DOMAIN mentions.domains : mentions.domains[d] >= 2

(***************************************************************************)
(* Properties of extract_product_names (SpecExtract).                      *)
(***************************************************************************)
IsWordAt(t, p) == p >= 1 /\ p <= Len(t) /\ t[p] \in WordChars

\* t holds b, whatever the case of its letters, with a word boundary before
\* its first and after its last character
OccursAsWholeWord(t, b) ==
    \E s \in 1..Len(t) :
        LET e == s + Len(b) - 1
        IN  /\ e <= Len(t)
            /\ Lower(SubSeq(t, s, e)) = Lower(b)
            /\ IsWordAt(t, s - 1) # IsWordAt(t, s)
            /\ IsWordAt(t, e) # IsWordAt(t, e + 1)

\* C9: a brand of the list is in the result iff the text holds it as a
\* case-insensitive whole word, whatever its place in the list and the other
\* brands; only brands of the list are reported; an empty or absent text yields
\* the empty list.
C9_BrandReportedIffWholeWord ==
    pc = "extracted" =>
        /\ \A b \in SeqToSet(brand_list) :
              b \in SeqToSet(products) <=> OccursAsWholeWord(OrEmpty(text), b)
        /\ SeqToSet(products) \subseteq SeqToSet(brand_list)
        /\ OrEmpty(text) = <<>> => products = <<>>

\* the second brand of the list is reported and the first is not, the match
\* differing in case from the brand
C9_Witness ==
    /\ pc = "extracted"
    /\ Len(brand_list) = 2
    /\ products = <<brand_list[2]>>
    /\ brand_list[1] # brand_list[2]
    /\ ~Contains(OrEmpty(text), brand_list[2])

(***************************************************************************)
(* Properties of the report (SpecReport).                                  *)
(***************************************************************************)
\* two texts of one element each, neither a character of any text
Mark1 == <<"{1}">>

Mark2 == <<"{2}">>

\* the report of the same shape whose texts hold no character at all of markup
BenignReport ==
    generate_html_report(ReportResults(Mark1, Mark2), ReportMentions(Mark1, Mark2),
                         <<Mark1, Mark2>>, Mark1, Mark2, <<Mark1, Mark2>>, Mark2)

BenignSkeleton == Skeleton(BenignReport)

BenignText == TextContent(BenignReport)

\* the visible text of the benign report with s1 and s2 in the marks' places
TextWith(s1, s2) ==
    Concat([p \in 1..Len(BenignText) |->
        IF BenignText[p] = Mark1[1] THEN s1
        ELSE IF BenignText[p] = Mark2[1] THEN s2
        ELSE <<BenignText[p]>>])

\* C7: whatever characters the texts hold, the report read by the browser has
\* the elements and attributes of the report of benign texts, its visible text
\* is the texts themselves, and each data-search value is the searchable text
\* computed for its entry.
C7_ReportEscapesAllText ==
    pc \in {"ready", "filtered"} =>
        /\ dom.skeleton = BenignSkeleton
        /\ dom.text = TextWith(system_prompt, user_prompt)
        /\ dom.cards = [j \in 1..Len(results) |->
                           data_search(results[j].question, OrEmpty(results[j].response))]

\* a report read by the browser whose texts hold <, > and ", and & followed by lt;
C7_Witness ==
    /\ pc = "ready"
    /\ results[1].question = <<"<", "\"">>
    /\ results[1].response = <<"&", "l", "t", ";">>
    /\ results[2].question = <<"&", "l", "t", ";">>
    /\ Len(dom.cards) = 2

\* q + " " + a, lowercased
CombinedText(r) == Lower(r.question \o <<" ">> \o OrEmpty(r.response))

\* C8: after filter() has run for a query that is a lowercased fragment of an
\* entry's question or response, a card is shown iff its entry's combined text
\* holds the query; with the empty query every card is shown.
C8_FilterShowsExactlyMatches ==
    pc \in {"ready", "filtered"} =>
        \A j \in 1..Len(results) :
            display[j] = (IF query = <<>> \/ Contains(CombinedText(results[j]), query)
                          THEN ""
                          ELSE "none")

====
